---- MODULE Spec2Model ----
(***************************************************************************)
(* A model of libsolidity/ast/ASTJsonConverter.cpp: the visitor that turns *)
(* an annotated syntax tree into a JSON document.                          *)
(*                                                                         *)
(* The tree is a table from node handles (the C++ object identities) to    *)
(* node records.  A converter instance is the record `conv`.  One toJson   *)
(* call is one action; the recursive descent is the operator toJson, which *)
(* threads the converter's mutable members through every visit.            *)
(***************************************************************************)
EXTENDS Integers, Sequences, FiniteSets, TLC

VARIABLES
    ast,    \* the syntax tree(s): handle -> node record (read-only input)
    roots,  \* the nodes the caller passes to toJson
    conv,   \* the converter instance: m_legacy, m_sourceIndices, m_inEvent, m_currentValue
    call,   \* the outcome of the latest toJson call on the instance
    prev    \* the outcome of the call before it

vars == <<ast, roots, conv, call, prev>>

----------------------------------------------------------------------------
(* Bounds of the model. *)

MaxOffset == 2
MaxIndex == 1
MaxLiteralLen == 2

----------------------------------------------------------------------------
(* JSON values (Json::Value).  Each variant is a record with its own field *)
(* name, so values of different variants are unequal, never incomparable.  *)

JNull == [null |-> TRUE]
JStr(s) == [str |-> s]
JInt(i) == [int |-> i]
JBool(b) == [bool |-> b]
JArr(a) == [arr |-> a]
JObj(f) == [obj |-> f]

IsNull(j) == DOMAIN j = {"null"}
IsStr(j) == DOMAIN j = {"str"}
IsInt(j) == DOMAIN j = {"int"}
IsArr(j) == DOMAIN j = {"arr"}
IsObj(j) == DOMAIN j = {"obj"}

EmptyObject == [k \in {} |-> JNull]

(* m_currentValue[key] = value: insert or overwrite. *)
Put(f, key, value) == (key :> value) @@ f

----------------------------------------------------------------------------
(* Absent pointers and optionals. *)

NoNode == 0
NoName == "<no source name>"
NoType == "<no type>"
NoString == "<null string>"

----------------------------------------------------------------------------
(* std::to_string(int): decimal digits, '-' for negatives.  Strings that   *)
(* are formatted or parsed are sequences of one-character strings.         *)

DigitChars == <<"0", "1", "2", "3", "4", "5", "6", "7", "8", "9">>

RECURSIVE NatToString(_)
NatToString(n) ==
    IF n < 10 THEN <<DigitChars[n + 1]>>
    ELSE NatToString(n \div 10) \o <<DigitChars[(n % 10) + 1]>>

to_string(i) == IF i < 0 THEN <<"-">> \o NatToString(-i) ELSE NatToString(i)

(* int sourceIndex = m_sourceIndices.at(...): unsigned converted to int. *)
UnsignedToInt(u) == IF u > 2147483647 THEN ((u - 2147483647) - 2147483647) - 2 ELSE u

sourceLocationToString_drop_guard(_location, m_sourceIndices) ==
    LET sourceIndex ==
            IF _location.sourceName # NoName /\ _location.sourceName \in DOMAIN m_sourceIndices
            THEN UnsignedToInt(m_sourceIndices[_location.sourceName])
            ELSE -1
        length == _location.end - _location.start
    IN  to_string(_location.start) \o <<":">> \o to_string(length) \o <<":">> \o to_string(sourceIndex)

sourceLocationToString(_location, m_sourceIndices) ==
    LET sourceIndex ==
            IF _location.sourceName # NoName /\ _location.sourceName \in DOMAIN m_sourceIndices
            THEN UnsignedToInt(m_sourceIndices[_location.sourceName])
            ELSE -1
        length ==
            IF _location.start >= 0 /\ _location.end >= 0
            THEN _location.end - _location.start
            ELSE -1
    IN  to_string(_location.start) \o <<":">> \o to_string(length) \o <<":">> \o to_string(sourceIndex)

(* boost::algorithm::join(_namePath, "."), on a non-empty path. *)
RECURSIVE namePathToString(_)
namePathToString(_namePath) ==
    IF Len(_namePath) = 1 THEN _namePath[1]
    ELSE _namePath[1] \o "." \o namePathToString(Tail(_namePath))

----------------------------------------------------------------------------
(* Enumerated labels.  The enumerators are named by strings; a value that  *)
(* is none of the cases of the switch takes the default branch and throws  *)
(* InternalCompilerError.                                                  *)

Thrown == [thrown |-> "InternalCompilerError"]
Returned(s) == [returned |-> s]
HasThrown(r) == DOMAIN r = {"thrown"}

visibility_defaulting(_visibility) ==
    CASE _visibility = "Private" -> Returned("private")
      [] _visibility = "Internal" -> Returned("internal")
      [] _visibility = "Public" -> Returned("public")
      [] _visibility = "External" -> Returned("external")
      [] OTHER -> Returned("internal")

visibility(_visibility) ==
    CASE _visibility = "Private" -> Returned("private")
      [] _visibility = "Internal" -> Returned("internal")
      [] _visibility = "Public" -> Returned("public")
      [] _visibility = "External" -> Returned("external")
      [] OTHER -> Thrown

location(_location) ==
    CASE _location = "Default" -> Returned("default")
      [] _location = "Storage" -> Returned("storage")
      [] _location = "Memory" -> Returned("memory")
      [] OTHER -> Thrown

(* type(Expression const&) and type(VariableDeclaration const&): the       *)
(* annotated type's display string, or "Unknown" when there is none.       *)
type(_node) == IF _node.type # NoType THEN _node.type ELSE "Unknown"

----------------------------------------------------------------------------
(* dev::validateUTF8 and dev::toHex (libdevcore), on byte sequences.       *)

HexChars == <<"0", "1", "2", "3", "4", "5", "6", "7", "8", "9", "a", "b", "c", "d", "e", "f">>

RECURSIVE toHex(_)
toHex(bytes) ==
    IF bytes = <<>> THEN <<>>
    ELSE <<HexChars[(Head(bytes) \div 16) + 1], HexChars[(Head(bytes) % 16) + 1]>> \o toHex(Tail(bytes))

IsContinuation(b) == b >= 128 /\ b <= 191

RECURSIVE validateUTF8(_)
validateUTF8(bytes) ==
    IF bytes = <<>> THEN TRUE
    ELSE LET b == Head(bytes)
             count == CASE b < 128 -> 0
                        [] b >= 194 /\ b <= 223 -> 1
                        [] b >= 224 /\ b <= 239 -> 2
                        [] b >= 240 /\ b <= 244 -> 3
                        [] OTHER -> -1
         IN  /\ count >= 0
             /\ Len(bytes) >= count + 1
             /\ \A i \in 2..(count + 1) : IsContinuation(bytes[i])
             /\ validateUTF8(SubSeq(bytes, count + 2, Len(bytes)))

----------------------------------------------------------------------------
(* The attribute list of a visit.  Its entries are evaluated in order, as  *)
(* the braced initializer lists of the source are; each entry says how its *)
(* value is obtained.                                                      *)

Scalar(key, value) == [k |-> key, op |-> "scalar", v |-> value]
Embed(key, h) == [k |-> key, op |-> "toJson", h |-> h]
EmbedOr(key, h, dflt) == [k |-> key, op |-> "toJsonOr", h |-> h, v |-> dflt]
EmbedAll(key, hs) == [k |-> key, op |-> "toJsonVector", hs |-> hs, vals |-> <<>>]
Visibility(key, vis) == [k |-> key, op |-> "visibility", v |-> vis]
Location(key, loc) == [k |-> key, op |-> "location", v |-> loc]
Deref(key, t) == [k |-> key, op |-> "deref", v |-> t]
IfInEvent(key, value) == [k |-> key, op |-> "ifInEvent", v |-> value]

(* idOrNull (header): the id of the node a link points to, or null. *)
idOrNull(h) == IF h = NoNode THEN JNull ELSE JInt(ast[h].id)

(* A list of ids appended one by one (node->id() on each element). *)
IdArray(hs) == JArr([i \in 1..Len(hs) |-> JInt(ast[hs[i]].id)])

StrArray(ss) == JArr([i \in 1..Len(ss) |-> JStr(ss[i])])

visit_SourceUnit(_node) ==
    LET syms == _node.exportedSymbols
        exportedSymbols == JObj([name \in DOMAIN syms |-> IdArray(syms[name])])
    IN  [nodeType |-> "SourceUnit",
         attributes |-> <<Scalar("absolutePath", JStr(_node.path)),
                          Scalar("exportedSymbols", exportedSymbols),
                          EmbedAll("nodes", _node.nodes)>>]

visit_PragmaDirective(_node) ==
    [nodeType |-> "PragmaDirective",
     attributes |-> <<Scalar("literals", StrArray(_node.literals))>>]

visit_ImportDirective(_node) ==
    LET aliases == _node.symbolAliases
        tuple(a) == JObj([foreign |-> JInt(ast[a[1]].id),
                          local |-> IF a[2] # NoString THEN JStr(a[2]) ELSE JNull])
    IN  [nodeType |-> "ImportDirective",
         attributes |-> <<Scalar("file", JStr(_node.path)),
                          Scalar("absolutePath", JStr(_node.absolutePath)),
                          Scalar("SourceUnit", JInt(ast[_node.sourceUnit].id)),
                          Scalar("scope", idOrNull(_node.scope)),
                          Scalar("unitAlias", JStr(_node.name)),
                          Scalar("symbolAliases", JArr([i \in 1..Len(aliases) |-> tuple(aliases[i])]))>>]

visit_ContractDefinition(_node) ==
    [nodeType |-> "ContractDefinition",
     attributes |-> <<Scalar("name", JStr(_node.name)),
                      Scalar("isLibrary", JBool(_node.isLibrary)),
                      Scalar("fullyImplemented", JBool(_node.isFullyImplemented)),
                      Scalar("linearizedBaseContracts", IdArray(_node.linearizedBaseContracts)),
                      Scalar("contractDependencies", IdArray(_node.contractDependencies)),
                      EmbedAll("nodes", _node.subNodes),
                      Scalar("scope", idOrNull(_node.scope))>>]

visit_InheritanceSpecifier(_node) ==
    [nodeType |-> "InheritanceSpecifier",
     attributes |-> <<Embed("baseName", _node.name),
                      EmbedAll("arguments", _node.arguments)>>]

visit_UsingForDirective(_node) ==
    [nodeType |-> "UsingForDirective",
     attributes |-> <<Embed("libraryNames", _node.libraryName),
                      EmbedOr("typeName", _node.typeName, JStr("*"))>>]

visit_StructDefinition(_node) ==
    [nodeType |-> "StructDefinition",
     attributes |-> <<Scalar("name", JStr(_node.name)),
                      Visibility("visibility", _node.visibility),
                      Scalar("canonicalName", JStr(_node.canonicalName)),
                      EmbedAll("members", _node.members),
                      Scalar("scope", idOrNull(_node.scope))>>]

visit_EnumDefinition(_node) ==
    [nodeType |-> "EnumDefinition",
     attributes |-> <<Scalar("name", JStr(_node.name)),
                      Visibility("visibility", _node.visibility),
                      Scalar("canonicalName", JStr(_node.canonicalName)),
                      EmbedAll("members", _node.members),
                      Scalar("scope", idOrNull(_node.scope))>>]

visit_EnumValue(_node) ==
    [nodeType |-> "EnumValue",
     attributes |-> <<Scalar("name", JStr(_node.name))>>]

visit_ParameterList(_node) ==
    [nodeType |-> "ParameterList",
     attributes |-> <<EmbedAll("parameters", _node.parameters)>>]

visit_FunctionDefinition(_node) ==
    [nodeType |-> "FunctionDefinition",
     attributes |-> <<Scalar("name", JStr(_node.name)),
                      Scalar("constant", JBool(_node.isDeclaredConst)),
                      Scalar("payable", JBool(_node.isPayable)),
                      Visibility("visibility", _node.visibility),
                      Embed("parameters", _node.parameterList),
                      Scalar("isConstructor", JBool(_node.isConstructor)),
                      Embed("returnParameters", _node.returnParameterList),
                      EmbedAll("modifiers", _node.modifiers),
                      EmbedOr("body", IF _node.isImplemented THEN _node.body ELSE NoNode, JNull),
                      Scalar("isImplemented", JBool(_node.isImplemented)),
                      Scalar("scope", idOrNull(_node.scope))>>]

visit_VariableDeclaration(_node) ==
    [nodeType |-> "VariableDeclaration",
     attributes |-> <<Scalar("name", JStr(_node.name)),
                      Scalar("type", JStr(type(_node))),
                      Scalar("constant", JBool(_node.isConstant)),
                      Location("storageLocation", _node.referenceLocation),
                      Visibility("visibility", _node.visibility),
                      EmbedOr("value", _node.value, JNull),
                      Scalar("scope", idOrNull(_node.scope)),
                      EmbedOr("typeName", _node.typeName, JNull),
                      IfInEvent("indexed", JBool(_node.isIndexed))>>]

visit_ModifierDefinition(_node) ==
    [nodeType |-> "ModifierDefinition",
     attributes |-> <<Scalar("name", JStr(_node.name)),
                      Visibility("visibility", _node.visibility),
                      Embed("parameters", _node.parameterList),
                      EmbedAll("body", ast[_node.body].statements)>>]

visit_ModifierInvocation(_node) ==
    [nodeType |-> "ModifierInvocation",
     attributes |-> <<Scalar("name", JStr(ast[_node.name].name)),
                      EmbedAll("arguments", _node.arguments)>>]

visit_EventDefinition(_node) ==
    [nodeType |-> "EventDefinition",
     attributes |-> <<Scalar("name", JStr(_node.name)),
                      Embed("parameters", _node.parameterList),
                      Scalar("isAnonymous", JBool(_node.isAnonymous)),
                      Scalar("scope", idOrNull(_node.scope))>>]

visit_ElementaryTypeName(_node) ==
    [nodeType |-> "ElementaryTypeName",
     attributes |-> <<Scalar("name", JStr(_node.typeName))>>]

visit_UserDefinedTypeName(_node) ==
    [nodeType |-> "UserDefinedTypeName",
     attributes |-> <<Scalar("name", JStr(namePathToString(_node.namePath))),
                      Scalar("referencedDeclaration", idOrNull(_node.referencedDeclaration)),
                      Scalar("contractScope", idOrNull(_node.contractScope))>>]

visit_FunctionTypeName(_node) ==
    [nodeType |-> "FunctionTypeName",
     attributes |-> <<Scalar("payable", JBool(_node.isPayable)),
                      Visibility("visibility", _node.visibility),
                      Scalar("constant", JBool(_node.isDeclaredConst)),
                      EmbedAll("parameterTypes", ast[_node.parameterTypeList].parameters),
                      EmbedAll("returnParameterTypes", ast[_node.returnParameterTypeList].parameters)>>]

visit_Mapping(_node) ==
    [nodeType |-> "Mapping",
     attributes |-> <<Embed("keyType", _node.keyType),
                      Embed("valueType", _node.valueType)>>]

visit_ArrayTypeName(_node) ==
    [nodeType |-> "ArrayTypeName",
     attributes |-> <<Embed("baseType", _node.baseType),
                      EmbedOr("length", _node.length, JNull)>>]

visit_InlineAssembly(_node) == [nodeType |-> "InlineAssembly", attributes |-> <<>>]

visit_Block(_node) ==
    [nodeType |-> "Block",
     attributes |-> <<EmbedAll("statements", _node.statements)>>]

visit_PlaceholderStatement(_node) == [nodeType |-> "PlaceholderStatement", attributes |-> <<>>]

visit_IfStatement(_node) ==
    [nodeType |-> "IfStatement",
     attributes |-> <<Embed("condition", _node.condition),
                      Embed("trueBody", _node.trueStatement),
                      EmbedOr("falseBody", _node.falseStatement, JNull)>>]

visit_WhileStatement_fixed_tag(_node) ==
    [nodeType |-> "WhileStatement",
     attributes |-> <<Embed("condition", _node.condition),
                      Embed("body", _node.body)>>]

visit_WhileStatement(_node) ==
    [nodeType |-> IF _node.isDoWhile THEN "DoWhileStatement" ELSE "WhileStatement",
     attributes |-> <<Embed("condition", _node.condition),
                      Embed("body", _node.body)>>]

visit_ForStatement(_node) ==
    [nodeType |-> "ForStatement",
     attributes |-> <<EmbedOr("initExpression", _node.initializationExpression, JNull),
                      EmbedOr("condition", _node.condition, JNull),
                      EmbedOr("loopExpression", _node.loopExpression, JNull),
                      Embed("body", _node.body)>>]

visit_Continue(_node) == [nodeType |-> "Continue", attributes |-> <<>>]

visit_Break(_node) == [nodeType |-> "Break", attributes |-> <<>>]

visit_Return(_node) ==
    [nodeType |-> "Return",
     attributes |-> <<EmbedOr("expression", _node.expression, JNull),
                      Scalar("functionReturnParameters", idOrNull(_node.functionReturnParameters))>>]

visit_Throw(_node) == [nodeType |-> "Throw", attributes |-> <<>>]

visit_VariableDeclarationStatement(_node) ==
    LET assignments == _node.assignments
        varDecs == JArr([i \in 1..Len(assignments) |-> idOrNull(assignments[i])])
    IN  [nodeType |-> "VariableDeclarationStatement",
         attributes |-> <<Scalar("declarationIDs", varDecs),
                          EmbedAll("declarations", _node.declarations),
                          EmbedOr("initialValue", _node.initialValue, JNull)>>]

visit_ExpressionStatement(_node) ==
    [nodeType |-> "ExpressionStatement",
     attributes |-> <<Embed("expression", _node.expression)>>]

visit_Conditional(_node) ==
    [nodeType |-> "Conditional",
     attributes |-> <<Embed("condition", _node.condition),
                      Embed("trueExpression", _node.trueExpression),
                      Embed("falseExpression", _node.falseExpression)>>]

visit_Assignment(_node) ==
    [nodeType |-> "Assignment",
     attributes |-> <<Scalar("operator", JStr(_node.assignmentOperator)),
                      Scalar("type", JStr(type(_node))),
                      Embed("leftHandSide", _node.leftHandSide),
                      Embed("rightHandSide", _node.rightHandSide)>>]

visit_TupleExpression(_node) ==
    [nodeType |-> "TupleExpression",
     attributes |-> <<Scalar("isInlineArray", JBool(_node.isInlineArray)),
                      EmbedAll("components", _node.components)>>]

visit_UnaryOperation(_node) ==
    [nodeType |-> "UnaryOperation",
     attributes |-> <<Scalar("prefix", JBool(_node.isPrefixOperation)),
                      Scalar("operator", JStr(_node.operator)),
                      Scalar("type", JStr(type(_node))),
                      Embed("subExpression", _node.subExpression)>>]

visit_BinaryOperation(_node) ==
    [nodeType |-> "BinaryOperation",
     attributes |-> <<Scalar("operator", JStr(_node.operator)),
                      Scalar("type", JStr(type(_node))),
                      Deref("commonType", _node.commonType)>>]

visit_FunctionCall(_node) ==
    [nodeType |-> "FunctionCall",
     attributes |-> <<Scalar("type_conversion", JBool(_node.isTypeConversion)),
                      Scalar("isStructContstructorCall", JBool(_node.isStructConstructorCall)),
                      Scalar("type", JStr(type(_node))),
                      EmbedAll("arguments", _node.arguments),
                      Embed("expression", _node.expression),
                      Scalar("names", StrArray(_node.names))>>]

visit_NewExpression(_node) ==
    [nodeType |-> "NewExpression",
     attributes |-> <<Scalar("type", JStr(type(_node))),
                      Embed("typeName", _node.typeName)>>]

visit_MemberAccess(_node) ==
    [nodeType |-> "MemberAccess",
     attributes |-> <<Scalar("memberName", JStr(_node.memberName)),
                      Scalar("type", JStr(type(_node))),
                      Embed("expression", _node.expression),
                      Scalar("referencedDeclaration", idOrNull(_node.referencedDeclaration))>>]

visit_IndexAccess(_node) ==
    [nodeType |-> "IndexAccess",
     attributes |-> <<Scalar("type", JStr(type(_node))),
                      Embed("baseExpression", _node.baseExpression),
                      EmbedOr("indexExpression", _node.indexExpression, JNull)>>]

visit_Identifier_handles(_node) ==
    LET decs == _node.overloadedDeclarations
    IN  [nodeType |-> "Identifier",
         attributes |-> <<Scalar("value", JStr(_node.name)),
                          Scalar("type", JStr(type(_node))),
                          Scalar("referencedDeclaration",
                                 IF _node.referencedDeclaration = NoNode THEN JInt(0)
                                 ELSE JInt(ast[_node.referencedDeclaration].id)),
                          Scalar("overloadedDeclarations", IdArray(decs))>>]

visit_Identifier(_node) ==
    [nodeType |-> "Identifier",
     attributes |-> <<Scalar("value", JStr(_node.name)),
                      Scalar("type", JStr(type(_node))),
                      Scalar("referencedDeclaration", idOrNull(_node.referencedDeclaration)),
                      Scalar("overloadedDeclarations", IdArray(_node.overloadedDeclarations))>>]

visit_ElementaryTypeNameExpression(_node) ==
    [nodeType |-> "ElementaryTypeNameExpression",
     attributes |-> <<Scalar("value", JStr(_node.typeName)),
                      Scalar("type", JStr(type(_node))),
                      Scalar("isConstant", JBool(_node.isConstant)),
                      Scalar("isPure", JBool(_node.isPure)),
                      Scalar("isLValue", JBool(_node.isLValue)),
                      Scalar("lValueRequested", JBool(_node.lValueRequested))>>]

visit_Literal_keeps_value(_node) ==
    [nodeType |-> "Literal",
     attributes |-> <<Scalar("token", IF _node.tokenString # NoString THEN JStr(_node.tokenString) ELSE JNull),
                      Scalar("value", JStr(_node.value)),
                      Scalar("hexvalue", JStr(toHex(_node.value))),
                      Scalar("subdenomination",
                             IF _node.subDenomination = "Illegal" THEN JNull
                             ELSE JStr(_node.subDenomination)),
                      Scalar("type", JStr(type(_node)))>>]

visit_Literal(_node) ==
    LET value == IF ~validateUTF8(_node.value) THEN JNull ELSE JStr(_node.value)
    IN  [nodeType |-> "Literal",
         attributes |-> <<Scalar("token", IF _node.tokenString # NoString THEN JStr(_node.tokenString) ELSE JNull),
                          Scalar("value", value),
                          Scalar("hexvalue", JStr(toHex(_node.value))),
                          Scalar("subdenomination",
                                 IF _node.subDenomination = "Illegal" THEN JNull
                                 ELSE JStr(_node.subDenomination)),
                          Scalar("type", JStr(type(_node)))>>]

(* The double dispatch of ASTNode::accept onto the visit overloads. *)
visit(_node) ==
    CASE _node.kind = "SourceUnit" -> visit_SourceUnit(_node)
      [] _node.kind = "PragmaDirective" -> visit_PragmaDirective(_node)
      [] _node.kind = "ImportDirective" -> visit_ImportDirective(_node)
      [] _node.kind = "ContractDefinition" -> visit_ContractDefinition(_node)
      [] _node.kind = "InheritanceSpecifier" -> visit_InheritanceSpecifier(_node)
      [] _node.kind = "UsingForDirective" -> visit_UsingForDirective(_node)
      [] _node.kind = "StructDefinition" -> visit_StructDefinition(_node)
      [] _node.kind = "EnumDefinition" -> visit_EnumDefinition(_node)
      [] _node.kind = "EnumValue" -> visit_EnumValue(_node)
      [] _node.kind = "ParameterList" -> visit_ParameterList(_node)
      [] _node.kind = "FunctionDefinition" -> visit_FunctionDefinition(_node)
      [] _node.kind = "VariableDeclaration" -> visit_VariableDeclaration(_node)
      [] _node.kind = "ModifierDefinition" -> visit_ModifierDefinition(_node)
      [] _node.kind = "ModifierInvocation" -> visit_ModifierInvocation(_node)
      [] _node.kind = "EventDefinition" -> visit_EventDefinition(_node)
      [] _node.kind = "ElementaryTypeName" -> visit_ElementaryTypeName(_node)
      [] _node.kind = "UserDefinedTypeName" -> visit_UserDefinedTypeName(_node)
      [] _node.kind = "FunctionTypeName" -> visit_FunctionTypeName(_node)
      [] _node.kind = "Mapping" -> visit_Mapping(_node)
      [] _node.kind = "ArrayTypeName" -> visit_ArrayTypeName(_node)
      [] _node.kind = "InlineAssembly" -> visit_InlineAssembly(_node)
      [] _node.kind = "Block" -> visit_Block(_node)
      [] _node.kind = "PlaceholderStatement" -> visit_PlaceholderStatement(_node)
      [] _node.kind = "IfStatement" -> visit_IfStatement(_node)
      [] _node.kind = "WhileStatement" -> visit_WhileStatement(_node)
      [] _node.kind = "ForStatement" -> visit_ForStatement(_node)
      [] _node.kind = "Continue" -> visit_Continue(_node)
      [] _node.kind = "Break" -> visit_Break(_node)
      [] _node.kind = "Return" -> visit_Return(_node)
      [] _node.kind = "Throw" -> visit_Throw(_node)
      [] _node.kind = "VariableDeclarationStatement" -> visit_VariableDeclarationStatement(_node)
      [] _node.kind = "ExpressionStatement" -> visit_ExpressionStatement(_node)
      [] _node.kind = "Conditional" -> visit_Conditional(_node)
      [] _node.kind = "Assignment" -> visit_Assignment(_node)
      [] _node.kind = "TupleExpression" -> visit_TupleExpression(_node)
      [] _node.kind = "UnaryOperation" -> visit_UnaryOperation(_node)
      [] _node.kind = "BinaryOperation" -> visit_BinaryOperation(_node)
      [] _node.kind = "FunctionCall" -> visit_FunctionCall(_node)
      [] _node.kind = "NewExpression" -> visit_NewExpression(_node)
      [] _node.kind = "MemberAccess" -> visit_MemberAccess(_node)
      [] _node.kind = "IndexAccess" -> visit_IndexAccess(_node)
      [] _node.kind = "Identifier" -> visit_Identifier(_node)
      [] _node.kind = "ElementaryTypeNameExpression" -> visit_ElementaryTypeNameExpression(_node)
      [] _node.kind = "Literal" -> visit_Literal(_node)

----------------------------------------------------------------------------
(* The traversal.  `cv` is the converter during one toJson call: its       *)
(* members, and the execution of the call:                                 *)
(*   stack    the visits in progress, innermost last; a frame holds the    *)
(*            node, its kind tag, the entries of its attribute list not    *)
(*            yet evaluated and the attributes evaluated so far            *)
(*   ret      the value the outermost toJson returned                      *)
(*   st       "ok", "ice" (InternalCompilerError left toJson) or "segv"    *)
(*   visited  the nodes whose visit function was entered, in order         *)
(*   cout     what was written to std::cout                                *)
(*   ub       what dereferencing a null pointer does in this run           *)
(*   ubHit    whether a null pointer was dereferenced                      *)

RECURSIVE PutAll(_, _)
PutAll(f, _attributes) ==
    IF _attributes = <<>> THEN f
    ELSE PutAll(Put(f, Head(_attributes)[1], Head(_attributes)[2]), Tail(_attributes))

setJsonNode(cv, _node, _nodeType, _attributes) ==
    LET id == Put(EmptyObject, "id", JInt(_node.id))
        src == Put(id, "src", JStr(sourceLocationToString(_node.location, cv.m_sourceIndices)))
        nodeType == Put(src, "nodeType", JStr(_nodeType))
    IN  [cv EXCEPT !.m_currentValue = JObj(PutAll(nodeType, _attributes))]

(* _node.annotation().commonType->toString(): the pointer is dereferenced  *)
(* unchecked.  On a null pointer the behaviour is undefined: the process   *)
(* dies, or the call yields some string.                                   *)
UBOutcomes == {"segv", "<garbage 1>", "<garbage 2>"}

(* The statement that precedes the attribute list in two of the visits. *)
enterVisit(cv, h) ==
    LET c == [cv EXCEPT !.visited = Append(@, h)]
    IN  CASE ast[h].kind = "EventDefinition" -> [c EXCEPT !.m_inEvent = TRUE]
          [] ast[h].kind = "InheritanceSpecifier" -> [c EXCEPT !.cout = Append(@, "imin")]
          [] OTHER -> c

endVisit(cv, h) ==
    IF ast[h].kind = "EventDefinition" THEN [cv EXCEPT !.m_inEvent = FALSE] ELSE cv

Top(cv) == cv.stack[Len(cv.stack)]
Pop(cv) == SubSeq(cv.stack, 1, Len(cv.stack) - 1)

(* The innermost visit goes on to its next entry, having evaluated the     *)
(* current one to `attrs` (no attribute, or one).                          *)
Advance(cv, attrs) ==
    [cv EXCEPT !.stack[Len(cv.stack)] =
        [@ EXCEPT !.entries = Tail(@), !.attributes = @ \o attrs]]

(* toJson(node) is entered: the node's accept calls the visit of the       *)
(* node's kind, whose attribute list is then evaluated entry by entry.     *)
Enter(cv, h) ==
    LET v == visit(ast[h])
        c == enterVisit(cv, h)
    IN  [c EXCEPT !.stack = Append(@, [h |-> h, nodeType |-> v.nodeType,
                                        entries |-> v.attributes, attributes |-> <<>>])]

(* An exception leaves every visit in progress and toJson itself. *)
Throw(cv, what) == [cv EXCEPT !.st = what, !.stack = <<>>]

(* The innermost visit has evaluated its attribute list: setJsonNode, the  *)
(* visit returns false, accept calls endVisit, and toJson moves the        *)
(* current value out to its caller: the entry of the enclosing visit that  *)
(* called it, or the caller of the outermost toJson.                       *)
Leave(cv) ==
    LET f == Top(cv)
        c == endVisit(setJsonNode(cv, ast[f.h], f.nodeType, f.attributes), f.h)
        val == c.m_currentValue
        moved == [c EXCEPT !.m_currentValue = JNull, !.stack = Pop(cv)]
    IN  IF moved.stack = <<>> THEN [moved EXCEPT !.ret = val]
        ELSE LET e == Head(Top(moved).entries)
             IN  IF e.op = "toJsonVector"
                 THEN [moved EXCEPT !.stack[Len(moved.stack)].entries[1] =
                          [@ EXCEPT !.hs = Tail(@), !.vals = Append(@, val)]]
                 ELSE Advance(moved, <<<<e.k, val>>>>)

(* One step of the innermost visit: its next entry, evaluated in order. *)
Step(cv) ==
    LET f == Top(cv)
    IN  IF f.entries = <<>> THEN Leave(cv)
        ELSE LET e == Head(f.entries)
             IN  CASE e.op = "scalar" -> Advance(cv, <<<<e.k, e.v>>>>)
                   [] e.op = "toJson" -> Enter(cv, e.h)
                   [] e.op = "toJsonOr" ->
                        IF e.h = NoNode THEN Advance(cv, <<<<e.k, e.v>>>>) ELSE Enter(cv, e.h)
                   [] e.op = "toJsonVector" ->
                        IF e.hs = <<>> THEN Advance(cv, <<<<e.k, JArr(e.vals)>>>>)
                        ELSE IF Head(e.hs) = NoNode
                             THEN [cv EXCEPT !.stack[Len(cv.stack)].entries[1] =
                                      [@ EXCEPT !.hs = Tail(@), !.vals = Append(@, JNull)]]
                             ELSE Enter(cv, Head(e.hs))
                   [] e.op = "visibility" ->
                        LET r == visibility(e.v)
                        IN  IF HasThrown(r) THEN Throw(cv, "ice")
                            ELSE Advance(cv, <<<<e.k, JStr(r.returned)>>>>)
                   [] e.op = "location" ->
                        LET r == location(e.v)
                        IN  IF HasThrown(r) THEN Throw(cv, "ice")
                            ELSE Advance(cv, <<<<e.k, JStr(r.returned)>>>>)
                   [] e.op = "deref" ->
                        IF e.v # NoType THEN Advance(cv, <<<<e.k, JStr(e.v)>>>>)
                        ELSE IF cv.ub = "segv" THEN Throw([cv EXCEPT !.ubHit = TRUE], "segv")
                             ELSE Advance([cv EXCEPT !.ubHit = TRUE], <<<<e.k, JStr(cv.ub)>>>>)
                   [] e.op = "ifInEvent" ->
                        IF cv.m_inEvent THEN Advance(cv, <<<<e.k, e.v>>>>) ELSE Advance(cv, <<>>)

(* Steps until toJson has returned or thrown: up to 2^(k+1) - 1 of them. *)
RECURSIVE Run(_, _)
Run(cv, k) ==
    IF cv.stack = <<>> THEN cv
    ELSE IF k = 0 THEN Step(cv)
    ELSE Run(Run(cv, k - 1), k - 1)

(* Json::Value toJson(ASTNode const& _node), from call to return. *)
toJson(cv, h) == Run(Enter(cv, h), 14)

----------------------------------------------------------------------------
(* The trees the converter is run on. *)

NoFields == [k \in {} |-> NoNode]

Node(h, file, kind, fields) ==
    [kind |-> kind, id |-> 100 + h,
     location |-> [sourceName |-> file, start |-> 2 * h, end |-> 2 * h + 3]] @@ fields

(* Two source units: a.sol (which imports b.sol) and b.sol, and one       *)
(* declaration of the global scope.  A node's handle is its position.     *)
Forest == <<
    \* 1: SU_A
    Node(1, "a.sol", "SourceUnit", [path |-> "a.sol", nodes |-> <<2, 3, 5>>,
         exportedSymbols |-> [C |-> <<5>>, B |-> <<59>>]]),
    \* 2: PRAGMA
    Node(2, "a.sol", "PragmaDirective", [literals |-> <<"solidity", "^", "0.4">>]),
    \* 3: IMPORT
    Node(3, "a.sol", "ImportDirective", [path |-> "b.sol", absolutePath |-> "b.sol", sourceUnit |-> 58,
         scope |-> 1, name |-> "", symbolAliases |-> << <<4, NoString>> >>]),
    \* 4: ALIAS_B
    Node(4, "a.sol", "Identifier", [name |-> "B", type |-> NoType, referencedDeclaration |-> 59,
         overloadedDeclarations |-> <<>>]),
    \* 5: C
    Node(5, "a.sol", "ContractDefinition", [name |-> "C", isLibrary |-> FALSE, isFullyImplemented |-> TRUE,
         linearizedBaseContracts |-> <<5, 59>>, contractDependencies |-> <<>>, baseContracts |-> <<6>>,
         subNodes |-> <<9, 11, 18, 20, 25, 37, 52>>, scope |-> 1]),
    \* 6: INH
    Node(6, "a.sol", "InheritanceSpecifier", [name |-> 7, arguments |-> <<8>>]),
    \* 7: UDT_B
    Node(7, "a.sol", "UserDefinedTypeName", [namePath |-> <<"B">>, referencedDeclaration |-> 59,
         contractScope |-> 5]),
    \* 8: LIT_ARG
    Node(8, "a.sol", "Literal", [tokenString |-> NoString, value |-> <<55>>, subDenomination |-> "Illegal",
         type |-> "int_const 7"]),
    \* 9: USING
    Node(9, "a.sol", "UsingForDirective", [libraryName |-> 10, typeName |-> NoNode]),
    \* 10: UDT_L
    Node(10, "a.sol", "UserDefinedTypeName", [namePath |-> <<"b", "L">>, referencedDeclaration |-> 60,
         contractScope |-> 5]),
    \* 11: STRUCT_S
    Node(11, "a.sol", "StructDefinition", [name |-> "S", visibility |-> "Public", canonicalName |-> "C.S",
         members |-> <<12>>, scope |-> 5]),
    \* 12: VAR_M
    Node(12, "a.sol", "VariableDeclaration", [name |-> "m", type |-> "mapping(uint256 => uint256[2])",
         isConstant |-> FALSE, referenceLocation |-> "Default", visibility |-> "Internal", value |-> NoNode,
         scope |-> 11, typeName |-> 13, isIndexed |-> FALSE]),
    \* 13: MAP
    Node(13, "a.sol", "Mapping", [keyType |-> 14, valueType |-> 15]),
    \* 14: ETN_K
    Node(14, "a.sol", "ElementaryTypeName", [typeName |-> "uint"]),
    \* 15: ARR
    Node(15, "a.sol", "ArrayTypeName", [baseType |-> 16, length |-> 17]),
    \* 16: ETN_V
    Node(16, "a.sol", "ElementaryTypeName", [typeName |-> "uint"]),
    \* 17: LIT_LEN
    Node(17, "a.sol", "Literal", [tokenString |-> NoString, value |-> <<50>>, subDenomination |-> "Illegal",
         type |-> "int_const 2"]),
    \* 18: ENUM_E
    Node(18, "a.sol", "EnumDefinition", [name |-> "E", visibility |-> "Public", canonicalName |-> "C.E",
         members |-> <<19>>, scope |-> 5]),
    \* 19: EV_1
    Node(19, "a.sol", "EnumValue", [name |-> "V"]),
    \* 20: VAR_X
    Node(20, "a.sol", "VariableDeclaration", [name |-> "x", type |-> "uint256", isConstant |-> FALSE,
         referenceLocation |-> "Default", visibility |-> "Internal", value |-> 22, scope |-> 5,
         typeName |-> 21, isIndexed |-> FALSE]),
    \* 21: ETN_X
    Node(21, "a.sol", "ElementaryTypeName", [typeName |-> "uint"]),
    \* 22: BINOP
    Node(22, "a.sol", "BinaryOperation", [operator |-> "+", type |-> "int_const 3",
         commonType |-> "int_const 3", leftExpression |-> 23, rightExpression |-> 24]),
    \* 23: LIT_1
    Node(23, "a.sol", "Literal", [tokenString |-> NoString, value |-> <<49>>, subDenomination |-> "Illegal",
         type |-> "int_const 1"]),
    \* 24: LIT_2
    Node(24, "a.sol", "Literal", [tokenString |-> NoString, value |-> <<50>>, subDenomination |-> "wei",
         type |-> "int_const 2"]),
    \* 25: EVENT_EV
    Node(25, "a.sol", "EventDefinition", [name |-> "Ev", parameterList |-> 26, isAnonymous |-> FALSE,
         scope |-> 5]),
    \* 26: PL_EV
    Node(26, "a.sol", "ParameterList", [parameters |-> <<27, 29>>]),
    \* 27: VAR_A
    Node(27, "a.sol", "VariableDeclaration", [name |-> "a", type |-> "uint256", isConstant |-> FALSE,
         referenceLocation |-> "Default", visibility |-> "Internal", value |-> NoNode, scope |-> 25,
         typeName |-> 28, isIndexed |-> TRUE]),
    \* 28: ETN_A
    Node(28, "a.sol", "ElementaryTypeName", [typeName |-> "uint"]),
    \* 29: VAR_CB
    Node(29, "a.sol", "VariableDeclaration", [name |-> "cb",
         type |-> "function (uint256) external returns (bool)", isConstant |-> FALSE,
         referenceLocation |-> "Default", visibility |-> "Internal", value |-> NoNode, scope |-> 25,
         typeName |-> 30, isIndexed |-> FALSE]),
    \* 30: FTN
    Node(30, "a.sol", "FunctionTypeName", [isPayable |-> FALSE, visibility |-> "External",
         isDeclaredConst |-> FALSE, parameterTypeList |-> 31, returnParameterTypeList |-> 34]),
    \* 31: PL_FT_P
    Node(31, "a.sol", "ParameterList", [parameters |-> <<32>>]),
    \* 32: VAR_P
    Node(32, "a.sol", "VariableDeclaration", [name |-> "", type |-> "uint256", isConstant |-> FALSE,
         referenceLocation |-> "Default", visibility |-> "Internal", value |-> NoNode, scope |-> 25,
         typeName |-> 33, isIndexed |-> FALSE]),
    \* 33: ETN_P
    Node(33, "a.sol", "ElementaryTypeName", [typeName |-> "uint"]),
    \* 34: PL_FT_R
    Node(34, "a.sol", "ParameterList", [parameters |-> <<35>>]),
    \* 35: VAR_R
    Node(35, "a.sol", "VariableDeclaration", [name |-> "", type |-> "bool", isConstant |-> FALSE,
         referenceLocation |-> "Default", visibility |-> "Internal", value |-> NoNode, scope |-> 25,
         typeName |-> 36, isIndexed |-> FALSE]),
    \* 36: ETN_R
    Node(36, "a.sol", "ElementaryTypeName", [typeName |-> "bool"]),
    \* 37: FUN_F
    Node(37, "a.sol", "FunctionDefinition", [name |-> "f", isDeclaredConst |-> FALSE, isPayable |-> FALSE,
         visibility |-> "Public", parameterList |-> 38, isConstructor |-> FALSE, returnParameterList |-> 41,
         modifiers |-> <<44>>, isImplemented |-> TRUE, body |-> 47, scope |-> 5]),
    \* 38: PL_F
    Node(38, "a.sol", "ParameterList", [parameters |-> <<39>>]),
    \* 39: VAR_Q
    Node(39, "a.sol", "VariableDeclaration", [name |-> "q", type |-> "uint256", isConstant |-> FALSE,
         referenceLocation |-> "Default", visibility |-> "Internal", value |-> NoNode, scope |-> 37,
         typeName |-> 40, isIndexed |-> FALSE]),
    \* 40: ETN_Q
    Node(40, "a.sol", "ElementaryTypeName", [typeName |-> "uint"]),
    \* 41: PL_FR
    Node(41, "a.sol", "ParameterList", [parameters |-> <<42>>]),
    \* 42: VAR_OK
    Node(42, "a.sol", "VariableDeclaration", [name |-> "ok", type |-> "bool", isConstant |-> FALSE,
         referenceLocation |-> "Default", visibility |-> "Internal", value |-> NoNode, scope |-> 37,
         typeName |-> 43, isIndexed |-> FALSE]),
    \* 43: ETN_OK
    Node(43, "a.sol", "ElementaryTypeName", [typeName |-> "bool"]),
    \* 44: MI
    Node(44, "a.sol", "ModifierInvocation", [name |-> 45, arguments |-> <<46>>]),
    \* 45: ID_M
    Node(45, "a.sol", "Identifier", [name |-> "m", type |-> "modifier (uint256)",
         referencedDeclaration |-> 52, overloadedDeclarations |-> <<>>]),
    \* 46: LIT_MI
    Node(46, "a.sol", "Literal", [tokenString |-> NoString, value |-> <<49>>, subDenomination |-> "Illegal",
         type |-> "int_const 1"]),
    \* 47: BLOCK_F
    Node(47, "a.sol", "Block", [statements |-> <<48>>]),
    \* 48: ES_F
    Node(48, "a.sol", "ExpressionStatement", [expression |-> 49]),
    \* 49: ASSIGN
    Node(49, "a.sol", "Assignment", [assignmentOperator |-> "=", type |-> "uint256", leftHandSide |-> 50,
         rightHandSide |-> 51]),
    \* 50: ID_X
    Node(50, "a.sol", "Identifier", [name |-> "x", type |-> "uint256", referencedDeclaration |-> 20,
         overloadedDeclarations |-> <<>>]),
    \* 51: LIT_F
    Node(51, "a.sol", "Literal", [tokenString |-> NoString, value |-> <<49>>, subDenomination |-> "Illegal",
         type |-> "int_const 1"]),
    \* 52: MOD_M
    Node(52, "a.sol", "ModifierDefinition", [name |-> "m", visibility |-> "Internal", parameterList |-> 53,
         body |-> 56]),
    \* 53: PL_M
    Node(53, "a.sol", "ParameterList", [parameters |-> <<54>>]),
    \* 54: VAR_K
    Node(54, "a.sol", "VariableDeclaration", [name |-> "k", type |-> "uint256", isConstant |-> FALSE,
         referenceLocation |-> "Default", visibility |-> "Internal", value |-> NoNode, scope |-> 52,
         typeName |-> 55, isIndexed |-> FALSE]),
    \* 55: ETN_KK
    Node(55, "a.sol", "ElementaryTypeName", [typeName |-> "uint"]),
    \* 56: BLOCK_M
    Node(56, "a.sol", "Block", [statements |-> <<57>>]),
    \* 57: PLACEHOLDER
    Node(57, "a.sol", "PlaceholderStatement", NoFields),
    \* 58: SU_B
    Node(58, "b.sol", "SourceUnit", [path |-> "b.sol", nodes |-> <<59, 60, 61>>,
         exportedSymbols |-> [B |-> <<59>>, L |-> <<60>>, D |-> <<61>>]]),
    \* 59: B
    Node(59, "b.sol", "ContractDefinition", [name |-> "B", isLibrary |-> FALSE, isFullyImplemented |-> TRUE,
         linearizedBaseContracts |-> <<59>>, contractDependencies |-> <<>>, baseContracts |-> <<>>,
         subNodes |-> <<>>, scope |-> 58]),
    \* 60: L
    Node(60, "b.sol", "ContractDefinition", [name |-> "L", isLibrary |-> TRUE, isFullyImplemented |-> TRUE,
         linearizedBaseContracts |-> <<60>>, contractDependencies |-> <<>>, baseContracts |-> <<>>,
         subNodes |-> <<>>, scope |-> 58]),
    \* 61: D
    Node(61, "b.sol", "ContractDefinition", [name |-> "D", isLibrary |-> FALSE, isFullyImplemented |-> FALSE,
         linearizedBaseContracts |-> <<61>>, contractDependencies |-> <<59>>, baseContracts |-> <<>>,
         subNodes |-> <<62, 65>>, scope |-> 58]),
    \* 62: FUN_H
    Node(62, "b.sol", "FunctionDefinition", [name |-> "h", isDeclaredConst |-> TRUE, isPayable |-> FALSE,
         visibility |-> "External", parameterList |-> 63, isConstructor |-> FALSE,
         returnParameterList |-> 64, modifiers |-> <<>>, isImplemented |-> FALSE, body |-> NoNode,
         scope |-> 61]),
    \* 63: PL_H
    Node(63, "b.sol", "ParameterList", [parameters |-> <<>>]),
    \* 64: PL_HR
    Node(64, "b.sol", "ParameterList", [parameters |-> <<>>]),
    \* 65: FUN_G
    Node(65, "b.sol", "FunctionDefinition", [name |-> "g", isDeclaredConst |-> FALSE, isPayable |-> TRUE,
         visibility |-> "Private", parameterList |-> 66, isConstructor |-> FALSE, returnParameterList |-> 69,
         modifiers |-> <<>>, isImplemented |-> TRUE, body |-> 70, scope |-> 61]),
    \* 66: PL_G
    Node(66, "b.sol", "ParameterList", [parameters |-> <<67>>]),
    \* 67: VAR_J
    Node(67, "b.sol", "VariableDeclaration", [name |-> "j", type |-> "uint256[] memory",
         isConstant |-> FALSE, referenceLocation |-> "Memory", visibility |-> "Internal", value |-> NoNode,
         scope |-> 65, typeName |-> 68, isIndexed |-> FALSE]),
    \* 68: ETN_J
    Node(68, "b.sol", "ElementaryTypeName", [typeName |-> "uint"]),
    \* 69: PL_GR
    Node(69, "b.sol", "ParameterList", [parameters |-> <<>>]),
    \* 70: BLOCK_G
    Node(70, "b.sol", "Block", [statements |-> <<71, 76, 79, 82, 86, 100>>]),
    \* 71: IF_S
    Node(71, "b.sol", "IfStatement", [condition |-> 72, trueStatement |-> 74, falseStatement |-> 75]),
    \* 72: UNOP
    Node(72, "b.sol", "UnaryOperation", [isPrefixOperation |-> TRUE, operator |-> "!", type |-> "bool",
         subExpression |-> 73]),
    \* 73: ID_C
    Node(73, "b.sol", "Identifier", [name |-> "c", type |-> NoType, referencedDeclaration |-> NoNode,
         overloadedDeclarations |-> <<62, 65>>]),
    \* 74: BREAK
    Node(74, "b.sol", "Break", NoFields),
    \* 75: THROW
    Node(75, "b.sol", "Throw", NoFields),
    \* 76: WHILE_S
    Node(76, "b.sol", "WhileStatement", [isDoWhile |-> FALSE, condition |-> 77, body |-> 78]),
    \* 77: LIT_T
    Node(77, "b.sol", "Literal", [tokenString |-> "true", value |-> <<116, 114, 117, 101>>,
         subDenomination |-> "Illegal", type |-> "bool"]),
    \* 78: CONTINUE
    Node(78, "b.sol", "Continue", NoFields),
    \* 79: DO_S
    Node(79, "b.sol", "WhileStatement", [isDoWhile |-> TRUE, condition |-> 80, body |-> 81]),
    \* 80: LIT_T2
    Node(80, "b.sol", "Literal", [tokenString |-> "false", value |-> <<102, 97, 108, 115, 101>>,
         subDenomination |-> "Illegal", type |-> "bool"]),
    \* 81: BLOCK_E
    Node(81, "b.sol", "Block", [statements |-> <<>>]),
    \* 82: FOR_S
    Node(82, "b.sol", "ForStatement", [initializationExpression |-> NoNode, condition |-> NoNode,
         loopExpression |-> 83, body |-> 85]),
    \* 83: ES_L
    Node(83, "b.sol", "ExpressionStatement", [expression |-> 84]),
    \* 84: ID_THIS
    Node(84, "b.sol", "Identifier", [name |-> "this", type |-> "contract D", referencedDeclaration |-> 104,
         overloadedDeclarations |-> <<>>]),
    \* 85: ASM
    Node(85, "b.sol", "InlineAssembly", NoFields),
    \* 86: VDS
    Node(86, "b.sol", "VariableDeclarationStatement", [assignments |-> <<87, NoNode>>,
         declarations |-> <<87>>, initialValue |-> 88]),
    \* 87: VAR_V
    Node(87, "b.sol", "VariableDeclaration", [name |-> "v", type |-> "uint256", isConstant |-> FALSE,
         referenceLocation |-> "Storage", visibility |-> "Internal", value |-> NoNode, scope |-> 65,
         typeName |-> NoNode, isIndexed |-> FALSE]),
    \* 88: TUPLE
    Node(88, "b.sol", "TupleExpression", [isInlineArray |-> FALSE, components |-> <<89, 98>>]),
    \* 89: CALL
    Node(89, "b.sol", "FunctionCall", [isTypeConversion |-> FALSE, isStructConstructorCall |-> FALSE,
         type |-> "uint256", arguments |-> <<92>>, expression |-> 90, names |-> <<>>]),
    \* 90: MEMBER
    Node(90, "b.sol", "MemberAccess", [memberName |-> "h", type |-> "function () external",
         expression |-> 91, referencedDeclaration |-> 62]),
    \* 91: ETNX
    Node(91, "b.sol", "ElementaryTypeNameExpression", [typeName |-> "address", type |-> "type(address)",
         isConstant |-> FALSE, isPure |-> TRUE, isLValue |-> FALSE, lValueRequested |-> FALSE]),
    \* 92: INDEX
    Node(92, "b.sol", "IndexAccess", [type |-> "uint256", baseExpression |-> 93, indexExpression |-> 94]),
    \* 93: ID_J
    Node(93, "b.sol", "Identifier", [name |-> "j", type |-> "uint256[] memory", referencedDeclaration |-> 67,
         overloadedDeclarations |-> <<>>]),
    \* 94: COND
    Node(94, "b.sol", "Conditional", [condition |-> 95, trueExpression |-> 96, falseExpression |-> 97]),
    \* 95: LIT_C
    Node(95, "b.sol", "Literal", [tokenString |-> "true", value |-> <<116, 114, 117, 101>>,
         subDenomination |-> "Illegal", type |-> "bool"]),
    \* 96: LIT_C1
    Node(96, "b.sol", "Literal", [tokenString |-> NoString, value |-> <<48>>, subDenomination |-> "Illegal",
         type |-> "int_const 0"]),
    \* 97: LIT_C2
    Node(97, "b.sol", "Literal", [tokenString |-> NoString, value |-> <<49>>, subDenomination |-> "Illegal",
         type |-> "int_const 1"]),
    \* 98: NEWX
    Node(98, "b.sol", "NewExpression", [type |-> "function () returns (contract B)", typeName |-> 99]),
    \* 99: UDT_NB
    Node(99, "b.sol", "UserDefinedTypeName", [namePath |-> <<"B">>, referencedDeclaration |-> 59,
         contractScope |-> NoNode]),
    \* 100: RET
    Node(100, "b.sol", "Return", [expression |-> 101, functionReturnParameters |-> 69]),
    \* 101: BINOP2
    Node(101, "b.sol", "BinaryOperation", [operator |-> "*", type |-> "uint256", commonType |-> "uint256",
         leftExpression |-> 102, rightExpression |-> 103]),
    \* 102: ID_V
    Node(102, "b.sol", "Identifier", [name |-> "v", type |-> "uint256", referencedDeclaration |-> 87,
         overloadedDeclarations |-> <<>>]),
    \* 103: LIT_R
    Node(103, "b.sol", "Literal", [tokenString |-> NoString, value |-> <<50>>, subDenomination |-> "Illegal",
         type |-> "int_const 2"]),
    \* 104: MAGIC_THIS
    Node(104, NoName, "MagicVariableDeclaration", [name |-> "this"])
>>


(* Variants of the forest: one field of one node changed.  "Default" is    *)
(* the enumerator of Declaration::Visibility that the switch of visibility *)
(* does not list; "Location(3)" is a value outside the enumeration.        *)
StringVariants == {
    <<27, "visibility", "Default">>,        \* event parameter a
    <<30, "visibility", "Default">>,        \* function type of event parameter cb
    <<37, "visibility", "Default">>,        \* function f
    <<37, "visibility", "Internal">>,
    <<11, "visibility", "Default">>,        \* struct S
    <<18, "visibility", "Default">>,        \* enum E
    <<52, "visibility", "Default">>,        \* modifier m
    <<20, "referenceLocation", "Location(3)">>,   \* state variable x
    <<20, "referenceLocation", "Storage">>,
    <<87, "referenceLocation", "Location(3)">>,   \* local variable v
    <<20, "type", NoType>>,                 \* state variable x
    <<22, "type", NoType>>,                 \* 1 + 2
    <<22, "commonType", NoType>>,
    <<101, "commonType", NoType>>,          \* v * 2
    <<102, "type", NoType>>                 \* identifier v
}

Variant(p) == [Forest EXCEPT ![p[1]] = [@ EXCEPT ![p[2]] = p[3]]]

(* Programs that vary a node of a.sol are converted from the source unit   *)
(* of a.sol, its event and its function; those that vary a node of b.sol   *)
(* from the source unit of b.sol.                                          *)
ProgramsA ==
    {Forest} \cup {Variant(p) : p \in {q \in StringVariants : q[1] < 58}}
             \cup {[Forest EXCEPT ![50].referencedDeclaration = NoNode]}

ProgramsB ==
    {Forest} \cup {Variant(p) : p \in {q \in StringVariants : q[1] >= 58}}
             \cup {[Forest EXCEPT ![76].isDoWhile = TRUE]}

RootsA == {1, 25, 37}

RootsB == {58}

FileNames == {"a.sol", "b.sol"}

(* Every source-index table over the file names, with indices 0..MaxIndex. *)
AllTables == UNION {[S -> 0..MaxIndex] : S \in SUBSET FileNames}

ForestTable == [f \in FileNames |-> IF f = "a.sol" THEN 0 ELSE 1]

(* A tree of one node with an arbitrary source location. *)
Offsets == (-2)..MaxOffset

LocationPrograms ==
    {<<[kind |-> "Break", id |-> 7, location |-> [sourceName |-> f, start |-> s, end |-> e]]>> :
        f \in FileNames \cup {NoName}, s \in Offsets, e \in Offsets}

(* A tree of one literal with arbitrary raw bytes. *)
Bytes == {65, 195, 169, 255}

ByteStrings == UNION {[1..n -> Bytes] : n \in 0..MaxLiteralLen}

LiteralPrograms ==
    {<<Node(1, "a.sol", "Literal",
            [tokenString |-> t, value |-> v, subDenomination |-> d, type |-> ty])>> :
        t \in {NoString, "true"}, v \in ByteStrings, d \in {"Illegal", "ether"},
        ty \in {NoType, "literal_string"}}

Inputs ==
    [ast : ProgramsA, roots : {RootsA}, legacy : {FALSE}, table : {ForestTable}]
    \cup [ast : ProgramsB, roots : {RootsB}, legacy : {FALSE}, table : {ForestTable}]
    \cup [ast : LocationPrograms, roots : {{1}}, legacy : BOOLEAN, table : AllTables]
    \cup [ast : LiteralPrograms, roots : {{1}}, legacy : BOOLEAN, table : {ForestTable}]

----------------------------------------------------------------------------
(* The converter instance and the calls on it. *)

(* ASTJsonConverter(bool _legacy, map<string, unsigned> _sourceIndices);   *)
(* m_inEvent is initialised to false and m_currentValue to null.           *)
ASTJsonConverter(_legacy, _sourceIndices) ==
    [m_legacy |-> _legacy, m_sourceIndices |-> _sourceIndices,
     m_inEvent |-> FALSE, m_currentValue |-> JNull]

NoCall ==
    [root |-> NoNode, st |-> "none", val |-> JNull, visited |-> <<>>, cout |-> <<>>,
     inEventAtStart |-> FALSE]

Init ==
    \E input \in Inputs :
        /\ ast = input.ast
        /\ roots = input.roots
        /\ conv = ASTJsonConverter(input.legacy, input.table)
        /\ call = NoCall
        /\ prev = NoCall

ProcessAlive == call.st # "segv"

(* A new converter instance with the same configuration. *)
Construct ==
    /\ ProcessAlive
    /\ conv' = ASTJsonConverter(conv.m_legacy, conv.m_sourceIndices)
    /\ UNCHANGED <<ast, roots, call, prev>>

StartOfCall(ub) ==
    conv @@ [st |-> "ok", visited |-> <<>>, cout |-> <<>>, ub |-> ub, ubHit |-> FALSE,
             stack |-> <<>>, ret |-> JNull]

(* Json::Value toJson(ASTNode const& _node), called by the owner of the    *)
(* instance.  An exception leaves the members as they were when thrown.    *)
ToJson ==
    /\ ProcessAlive
    /\ \E root \in roots :
        LET first == toJson(StartOfCall("segv"), root)
        IN  \E ub \in IF first.ubHit THEN UBOutcomes ELSE {"segv"} :
                LET r == IF ub = "segv" THEN first ELSE toJson(StartOfCall(ub), root)
                IN  /\ conv' = [conv EXCEPT !.m_inEvent = r.m_inEvent,
                                            !.m_currentValue = r.m_currentValue]
                    /\ call' = [root |-> root, st |-> r.st, val |-> r.ret,
                                visited |-> r.visited, cout |-> r.cout,
                                inEventAtStart |-> conv.m_inEvent]
                    /\ prev' = call
    /\ UNCHANGED <<ast, roots>>

Next == Construct \/ ToJson

Spec == Init /\ [][Next]_vars

----------------------------------------------------------------------------
(* Reading the output: the documents embedded in a JSON value.  A document *)
(* is an object with the key nodeType; the walk visits every object and    *)
(* array of the value, outermost first.                                    *)

IsContainer(j) == IsObj(j) \/ IsArr(j)

RECURSIVE SetToSeq(_)
SetToSeq(S) ==
    IF S = {} THEN <<>>
    ELSE LET x == CHOOSE y \in S : TRUE IN <<x>> \o SetToSeq(S \ {x})

Members(j) ==
    IF IsArr(j) THEN SelectSeq(j.arr, IsContainer)
    ELSE LET keys == SetToSeq(DOMAIN j.obj)
         IN  SelectSeq([i \in 1..Len(keys) |-> j.obj[keys[i]]], IsContainer)

WalkStep(w) ==
    LET j == Head(w.todo)
    IN  [todo |-> Tail(w.todo) \o Members(j),
         found |-> IF IsObj(j) /\ "nodeType" \in DOMAIN j.obj THEN Append(w.found, j.obj)
                   ELSE w.found]

RECURSIVE Walk(_, _)
Walk(w, k) ==
    IF w.todo = <<>> THEN w
    ELSE IF k = 0 THEN WalkStep(w)
    ELSE Walk(Walk(w, k - 1), k - 1)

(* The documents embedded in j (j itself included), as their key-value maps. *)
EmbeddedDocs(j) ==
    IF IsContainer(j) THEN Walk([todo |-> <<j>>, found |-> <<>>], 14).found ELSE <<>>

NodeOfId(id) == CHOOSE h \in DOMAIN ast : ast[h].id = id

ProgramIds == {ast[h].id : h \in DOMAIN ast}

Range(seq) == {seq[i] : i \in 1..Len(seq)}

(* The structural children of a node (the nodes it owns and its accept     *)
(* would traverse), by kind.                                               *)
Present(hs) == {h \in hs : h # NoNode}

Children(h) ==
    LET n == ast[h]
    IN  CASE n.kind = "SourceUnit" -> Range(n.nodes)
          [] n.kind = "ContractDefinition" -> Range(n.baseContracts) \cup Range(n.subNodes)
          [] n.kind = "InheritanceSpecifier" -> {n.name} \cup Range(n.arguments)
          [] n.kind = "UsingForDirective" -> Present({n.libraryName, n.typeName})
          [] n.kind = "StructDefinition" -> Range(n.members)
          [] n.kind = "EnumDefinition" -> Range(n.members)
          [] n.kind = "ParameterList" -> Range(n.parameters)
          [] n.kind = "FunctionDefinition" ->
                Present({n.parameterList, n.returnParameterList, n.body}) \cup Range(n.modifiers)
          [] n.kind = "VariableDeclaration" -> Present({n.typeName, n.value})
          [] n.kind = "ModifierDefinition" -> {n.parameterList, n.body}
          [] n.kind = "ModifierInvocation" -> {n.name} \cup Range(n.arguments)
          [] n.kind = "EventDefinition" -> {n.parameterList}
          [] n.kind = "FunctionTypeName" -> {n.parameterTypeList, n.returnParameterTypeList}
          [] n.kind = "Mapping" -> {n.keyType, n.valueType}
          [] n.kind = "ArrayTypeName" -> Present({n.baseType, n.length})
          [] n.kind = "Block" -> Range(n.statements)
          [] n.kind = "IfStatement" -> Present({n.condition, n.trueStatement, n.falseStatement})
          [] n.kind = "WhileStatement" -> {n.condition, n.body}
          [] n.kind = "ForStatement" ->
                Present({n.initializationExpression, n.condition, n.loopExpression, n.body})
          [] n.kind = "Return" -> Present({n.expression})
          [] n.kind = "VariableDeclarationStatement" ->
                Present(Range(n.declarations) \cup {n.initialValue})
          [] n.kind = "ExpressionStatement" -> {n.expression}
          [] n.kind = "Conditional" -> {n.condition, n.trueExpression, n.falseExpression}
          [] n.kind = "Assignment" -> {n.leftHandSide, n.rightHandSide}
          [] n.kind = "TupleExpression" -> Present(Range(n.components))
          [] n.kind = "UnaryOperation" -> {n.subExpression}
          [] n.kind = "BinaryOperation" -> {n.leftExpression, n.rightExpression}
          [] n.kind = "FunctionCall" -> {n.expression} \cup Range(n.arguments)
          [] n.kind = "NewExpression" -> {n.typeName}
          [] n.kind = "MemberAccess" -> {n.expression}
          [] n.kind = "IndexAccess" -> Present({n.baseExpression, n.indexExpression})
          [] OTHER -> {}

RECURSIVE Closure(_)
Closure(S) ==
    LET T == S \cup UNION {Children(h) : h \in S}
    IN  IF T = S THEN S ELSE Closure(T)

(* The nodes structurally reachable from a root, the root included. *)
Reachable(root) == Closure({root})

----------------------------------------------------------------------------
(* Vocabulary of the properties. *)

(* The documents embedded in the value the latest call returned. *)
OutDocs == EmbeddedDocs(call.val)

Completed == call.st = "ok"

NodeOfDoc(d) == ast[NodeOfId(d.id.int)]

HasKey(d, key) == key \in DOMAIN d

(* The source string of a document, read back: three decimal fields       *)
(* separated by two colons.                                                *)
DigitValue(c) == CHOOSE v \in 0..9 : DigitChars[v + 1] = c

IsNumeral(s) ==
    LET digits == IF s # <<>> /\ Head(s) = "-" THEN Tail(s) ELSE s
    IN  digits # <<>> /\ \A i \in 1..Len(digits) : \E v \in 0..9 : DigitChars[v + 1] = digits[i]

RECURSIVE ParseNat(_)
ParseNat(s) ==
    IF s = <<>> THEN 0
    ELSE ParseNat(SubSeq(s, 1, Len(s) - 1)) * 10 + DigitValue(s[Len(s)])

ParseInt(s) == IF Head(s) = "-" THEN 0 - ParseNat(Tail(s)) ELSE ParseNat(s)

Colons(s) == {i \in 1..Len(s) : s[i] = ":"}

SrcFields(s) ==
    LET c1 == CHOOSE i \in Colons(s) : \A j \in Colons(s) : i <= j
        c2 == CHOOSE i \in Colons(s) : \A j \in Colons(s) : i >= j
    IN  <<SubSeq(s, 1, c1 - 1), SubSeq(s, c1 + 1, c2 - 1), SubSeq(s, c2 + 1, Len(s))>>

(* A hex string read back as bytes. *)
HexValue(c) == CHOOSE v \in 0..15 : HexChars[v + 1] = c

HexDecode(s) == [i \in 1..(Len(s) \div 2) |-> HexValue(s[2 * i - 1]) * 16 + HexValue(s[2 * i])]

(* The ids a document emits as references to other nodes. *)
SingleReferenceKeys == {"scope", "referencedDeclaration", "contractScope", "functionReturnParameters"}

ListReferenceKeys ==
    {"overloadedDeclarations", "declarationIDs", "linearizedBaseContracts", "contractDependencies"}

EmittedReferences(d) ==
    {d[k] : k \in DOMAIN d \cap (SingleReferenceKeys \cup {"SourceUnit"})}
    \cup UNION {Range(d[k].arr) : k \in DOMAIN d \cap ListReferenceKeys}
    \cup (IF HasKey(d, "exportedSymbols")
          THEN UNION {Range(d.exportedSymbols.obj[name].arr) : name \in DOMAIN d.exportedSymbols.obj}
          ELSE {})
    \cup (IF HasKey(d, "symbolAliases")
          THEN {d.symbolAliases.arr[i].obj.foreign : i \in 1..Len(d.symbolAliases.arr)}
          ELSE {})

(* The documents of the parameters listed under the key of a definition. *)
ParameterDocs(d, key) ==
    IF HasKey(d, key) /\ IsObj(d[key]) THEN d[key].obj.parameters.arr ELSE <<>>

IsEventParameter(h) ==
    \E e \in DOMAIN ast :
        /\ ast[e].kind = "EventDefinition"
        /\ h \in Range(ast[ast[e].parameterList].parameters)

Visibilities == {"Private", "Internal", "Public", "External"}

Locations == {"Default", "Storage", "Memory"}

UnknownEnumerator(h) ==
    \/ HasKey(ast[h], "visibility") /\ ast[h].visibility \notin Visibilities
    \/ HasKey(ast[h], "referenceLocation") /\ ast[h].referenceLocation \notin Locations

MissingType(h) == HasKey(ast[h], "type") /\ ast[h].type = NoType

MissingCommonType(h) == HasKey(ast[h], "commonType") /\ ast[h].commonType = NoType

----------------------------------------------------------------------------
(* The properties. *)

(* C1: a completed toJson(root) embeds exactly one document per node that  *)
(* is structurally reachable from the root: every reachable node has       *)
(* exactly one document carrying its id, and every document carries the id *)
(* of a reachable node.                                                    *)
C1_OneDocumentPerReachableNode ==
    Completed =>
        LET docs == OutDocs
            ids == [i \in 1..Len(docs) |-> docs[i].id.int]
        IN  /\ \A h \in Reachable(call.root) :
                  Cardinality({i \in 1..Len(ids) : ids[i] = ast[h].id}) = 1
            /\ \A i \in 1..Len(ids) : \E h \in Reachable(call.root) : ids[i] = ast[h].id

(* C2, as stated: in the returned document every id emitted as a reference *)
(* is null or the id of a document embedded in the same output.            *)
C2_ReferencesAreEmbedded ==
    Completed =>
        LET docs == OutDocs
            embedded == {docs[i].id : i \in 1..Len(docs)}
        IN  \A i \in 1..Len(docs) : \A r \in EmittedReferences(docs[i]) :
                r = JNull \/ r \in embedded

(* C2, amended: every id emitted as a reference is the id of a node of the *)
(* analysed program, embedded in this output or not, or null; a scope,     *)
(* referencedDeclaration, contractScope or functionReturnParameters is     *)
(* null exactly when the node has no such link and is otherwise the id of  *)
(* the linked node.                                                        *)
C2_ReferencesNameProgramNodes ==
    Completed =>
        LET docs == OutDocs
        IN  \A i \in 1..Len(docs) :
                /\ \A r \in EmittedReferences(docs[i]) :
                      r = JNull \/ (IsInt(r) /\ r.int \in ProgramIds)
                /\ \A k \in DOMAIN docs[i] \cap SingleReferenceKeys :
                      LET link == NodeOfDoc(docs[i])[k]
                      IN  IF link = NoNode THEN docs[i][k] = JNull
                          ELSE docs[i][k] = JInt(ast[link].id)

(* A completed conversion that emits a null reference and a reference to a *)
(* node that is not embedded in the output.                                *)
C2_Witness ==
    /\ Completed
    /\ LET docs == OutDocs
           embedded == {docs[i].id : i \in 1..Len(docs)}
           refs == UNION {EmittedReferences(docs[i]) : i \in 1..Len(docs)}
       IN  JNull \in refs /\ \E r \in refs : r # JNull /\ r \notin embedded

(* C3: the src of the returned document reads start:length:sourceIndex,    *)
(* with length = end - start if both offsets are non-negative and -1       *)
(* otherwise, and sourceIndex the table entry of the file name if the name *)
(* is present and in the table and -1 otherwise; converting a node whose   *)
(* visit only formats its location never throws.                           *)
C3_SourceLocationToString ==
    /\ (call.st # "none" /\ ast[call.root].kind = "Break") => Completed
    /\ Completed =>
          LET loc == ast[call.root].location
              src == call.val.obj.src.str
              fields == SrcFields(src)
          IN  /\ Cardinality(Colons(src)) = 2
              /\ \A i \in 1..3 : IsNumeral(fields[i])
              /\ ParseInt(fields[1]) = loc.start
              /\ ParseInt(fields[2]) =
                    IF loc.start >= 0 /\ loc.end >= 0 THEN loc.end - loc.start ELSE -1
              /\ ParseInt(fields[3]) =
                    IF loc.sourceName # NoName /\ loc.sourceName \in DOMAIN conv.m_sourceIndices
                    THEN conv.m_sourceIndices[loc.sourceName]
                    ELSE -1

(* A location with a negative start, a non-negative end and a file name    *)
(* that the table lacks has been converted.                                *)
C3_Witness ==
    /\ Completed
    /\ ast[call.root].location.start < 0
    /\ ast[call.root].location.end > 0
    /\ ast[call.root].location.sourceName # NoName
    /\ ast[call.root].location.sourceName \notin DOMAIN conv.m_sourceIndices

(* C4: in every completed conversion the parameters embedded under an      *)
(* EventDefinition have the key indexed and the parameters and return      *)
(* parameters embedded under a FunctionDefinition do not.                  *)
C4_IndexedFollowsTheEnclosingDefinition ==
    Completed =>
        LET docs == OutDocs
        IN  \A i \in 1..Len(docs) :
                LET d == docs[i]
                    ins == ParameterDocs(d, "parameters")
                    outs == ParameterDocs(d, "returnParameters")
                IN  /\ d.nodeType = JStr("EventDefinition") =>
                          \A j \in 1..Len(ins) : HasKey(ins[j].obj, "indexed")
                    /\ d.nodeType = JStr("FunctionDefinition") =>
                          /\ \A j \in 1..Len(ins) : ~HasKey(ins[j].obj, "indexed")
                          /\ \A j \in 1..Len(outs) : ~HasKey(outs[j].obj, "indexed")

(* C5: a VariableDeclaration document has the key indexed only if the      *)
(* declaration is itself a parameter of an EventDefinition.                *)
C5_IndexedOnlyOnEventParameters ==
    Completed =>
        LET docs == OutDocs
        IN  \A i \in 1..Len(docs) :
                (docs[i].nodeType = JStr("VariableDeclaration") /\ HasKey(docs[i], "indexed"))
                    => IsEventParameter(NodeOfId(docs[i].id.int))

(* C6: if a node visited during the call has a visibility or a storage     *)
(* location outside the enumerations, the call has thrown                  *)
(* InternalCompilerError and returned no document.                         *)
C6_UnknownEnumeratorAborts ==
    (\E i \in 1..Len(call.visited) : UnknownEnumerator(call.visited[i]))
        => call.st = "ice" /\ call.val = JNull

(* A call that visited a node with an unknown enumerator after other       *)
(* nodes, whose documents were already built.                              *)
C6_Witness ==
    /\ Len(call.visited) > 2
    /\ UnknownEnumerator(call.visited[Len(call.visited)])

(* C7: a call that visits a node whose annotated type or common type is    *)
(* absent, and no node with an unknown enumerator, completes; and the      *)
(* document of a node whose type is absent has the string "Unknown" under  *)
(* type, respectively commonType.                                          *)
C7_MissingTypeDegrades ==
    /\ (/\ \E i \in 1..Len(call.visited) :
               MissingType(call.visited[i]) \/ MissingCommonType(call.visited[i])
        /\ \A i \in 1..Len(call.visited) : ~UnknownEnumerator(call.visited[i])) => Completed
    /\ Completed =>
          LET docs == OutDocs
          IN  \A i \in 1..Len(docs) :
                  LET h == NodeOfId(docs[i].id.int)
                  IN  /\ MissingType(h) =>
                            HasKey(docs[i], "type") /\ docs[i].type = JStr("Unknown")
                      /\ MissingCommonType(h) =>
                            HasKey(docs[i], "commonType") /\ docs[i].commonType = JStr("Unknown")

(* C8: converting a Literal does not throw, and in every Literal document  *)
(* value is the node's text if its bytes are valid UTF-8 and null          *)
(* otherwise, and hexvalue is a string that decodes to the node's bytes.   *)
C8_LiteralValueAndHexvalue ==
    /\ (call.st # "none" /\ ast[call.root].kind = "Literal") => Completed
    /\ Completed =>
          LET docs == OutDocs
          IN  \A i \in 1..Len(docs) :
                  docs[i].nodeType = JStr("Literal") =>
                      LET bytes == NodeOfDoc(docs[i]).value
                      IN  /\ docs[i].value = IF validateUTF8(bytes) THEN JStr(bytes) ELSE JNull
                          /\ IsStr(docs[i].hexvalue)
                          /\ Len(docs[i].hexvalue.str) = 2 * Len(bytes)
                          /\ HexDecode(docs[i].hexvalue.str) = bytes

(* A literal of two bytes that are not valid UTF-8 has been converted. *)
C8_Witness ==
    /\ Completed
    /\ ast[call.root].kind = "Literal"
    /\ Len(ast[call.root].value) >= 2
    /\ ~validateUTF8(ast[call.root].value)

(* C9: two consecutive completed calls of toJson on the same root, under   *)
(* the same configuration, return identical documents.                     *)
C9_Idempotent ==
    (prev.st = "ok" /\ Completed /\ prev.root = call.root) => prev.val = call.val

(* The node kind and nodeType of every document of the output, with the    *)
(* isDoWhile flag of the node if it is a WhileStatement.                   *)
TagsOf(docs) ==
    {<<NodeOfDoc(docs[i]).kind,
       NodeOfDoc(docs[i]).kind = "WhileStatement" /\ NodeOfDoc(docs[i]).isDoWhile,
       docs[i].nodeType>> : i \in 1..Len(docs)}

(* Every visited node has one document, which has the node's id, a src     *)
(* and a nodeType.                                                         *)
DocumentsHaveIdSrcNodeType(docs) ==
    /\ Len(docs) = Len(call.visited)
    /\ {docs[i].id : i \in 1..Len(docs)} = {JInt(ast[h].id) : h \in Range(call.visited)}
    /\ \A i \in 1..Len(docs) :
          /\ {"id", "src", "nodeType"} \subseteq DOMAIN docs[i]
          /\ IsStr(docs[i].src) /\ IsStr(docs[i].nodeType)

(* C10, as stated: two documents of nodes of the same kind have the same   *)
(* nodeType, and every document has the keys id (the node's id), src and   *)
(* nodeType.                                                               *)
C10_NodeTypeFixedByKind ==
    Completed =>
        LET docs == OutDocs
            tags == TagsOf(docs)
        IN  /\ DocumentsHaveIdSrcNodeType(docs)
            /\ \A s \in tags : \A t \in tags : s[1] = t[1] => s[3] = t[3]

(* C10, amended: two documents of nodes of the same kind have the same     *)
(* nodeType unless the nodes are WhileStatements, whose nodeType is        *)
(* DoWhileStatement if isDoWhile and WhileStatement otherwise; every       *)
(* document has the keys id (the node's id), src and nodeType.             *)
C10_NodeTypeFixedByKindOrLoopForm ==
    Completed =>
        LET docs == OutDocs
            tags == TagsOf(docs)
        IN  /\ DocumentsHaveIdSrcNodeType(docs)
            /\ \A s \in tags : \A t \in tags : (s[1] = t[1] /\ s[2] = t[2]) => s[3] = t[3]
            /\ \A s \in tags : s[1] = "WhileStatement" =>
                  s[3] = JStr(IF s[2] THEN "DoWhileStatement" ELSE "WhileStatement")

(* A completed conversion whose output has a while loop, a do-while loop   *)
(* and two nodes of some other kind.                                       *)
C10_Witness ==
    /\ Completed
    /\ LET tags == TagsOf(OutDocs)
       IN  /\ \E s \in tags : s[1] = "WhileStatement" /\ s[2]
           /\ \E s \in tags : s[1] = "WhileStatement" /\ ~s[2]
           /\ \E s \in tags : s[1] = "Literal"

(* C11: between toJson calls no EventDefinition visit is in progress, so    *)
(* the in-event flag of the instance is false: it is false after every     *)
(* call, completed or aborted, and was false at the start of the latest    *)
(* call.                                                                   *)
C11_InEventIsFalseBetweenCalls ==
    /\ ~conv.m_inEvent
    /\ ~call.inEventAtStart

====
